---- MODULE Spec2Model ----
(***************************************************************************)
(* flashlight: a chained proxy that runs as a client (downstream) or as a  *)
(* server (upstream).  The module models                                   *)
(*   - the upstream front end, handleServer / handleInfoRequest,           *)
(*   - the client proxy's Director,                                        *)
(*   - the downstream front end of package proxy, Client.ServeHTTP,        *)
(*   - the start-up certificate lifecycle: main, initCommonCerts,          *)
(*     initServerCert, installCACertToTrustStoreIfNecessary and            *)
(*     certificateFor, over restarts with a persistent config directory.   *)
(* Go strings are sequences of one-character strings, so that              *)
(* strings.Split is computed and not assumed.                              *)
(***************************************************************************)
EXTENDS Integers, Sequences, FiniteSets, TLC

VARIABLES
    \* upstream front end
    sreq,        \* the request handleServer was called with (NoReq before the first)
    shandler,    \* which handler answered it: "none", "info", "proxy"
    sresp,       \* the response written by handleInfoRequest (NoResp otherwise)
    sforward,    \* what serverProxy did with it (NoForward when it was not called)
    \* client proxy Director
    dns,         \* the resolver's answer for every host name
    dreq,        \* the request the Director was called with
    dout,        \* the request as the Director left it
    dcalls,      \* number of calls of clientProtocol.RewriteRequest for dreq
    \* downstream front end of package proxy
    reverseProxy,  \* Client.reverseProxy: Nil until buildReverseProxy has run
    cserved,       \* number of requests Client.ServeHTTP has handled
    cintercepted,  \* the requests handed to EnproxyConfig.Intercept, in order
    cproxied,      \* the requests handed to reverseProxy.ServeHTTP, in order
    cdials,        \* what the transport's Dial returned for each proxied request
    \* start-up and certificates
    now,         \* the clock, in months
    runs,        \* number of times the program has been started
    pc,          \* where main is: "stopped", "started", "commonOk", ...
    flags,       \* the command line of this run: [addr, isDownstream, install]
    pkFile,      \* proxypk.pem in the config directory
    caFile,      \* cacert.pem
    serverFile,  \* servercert.pem
    pk,          \* the private key in use (Nil before it is loaded)
    caCert,      \* the root certificate in use
    serverCert,  \* the server certificate in use
    trustStore,  \* common names of the roots in the system trust store
    keysMade,    \* number of private keys generated so far
    rootsMade,   \* number of root common names (uuids) drawn so far
    issued,      \* [key, serial] of every certificate certificateFor has issued
    initLog,     \* what initCommonCerts did in this run
    serverLog    \* what initServerCert did in this run

svars == <<sreq, shandler, sresp, sforward>>
dvars == <<dns, dreq, dout, dcalls>>
mvars == <<now, runs, pc, flags, pkFile, caFile, serverFile, pk, caCert, serverCert,
           trustStore, keysMade, rootsMade, issued, initLog, serverLog>>
cvars == <<reverseProxy, cserved, cintercepted, cproxied, cdials>>

(***************************************************************************)
(* Strings                                                                 *)
(***************************************************************************)

\* Longest X-Forwarded-For value enumerated.
MaxLen == 3

EmptyStr == << >>

\* Go's nil.
Nil == [nil |-> TRUE]

\* A header that the request does not carry.
Absent == <<"(absent)">>

RECURSIVE StringsUpTo(_, _)
StringsUpTo(alphabet, n) ==
    IF n = 0 THEN {EmptyStr}
    ELSE LET shorter == StringsUpTo(alphabet, n - 1)
         IN  shorter \cup {Append(s, c) : s \in shorter, c \in alphabet}

Contains(s, c) == \E i \in 1..Len(s) : s[i] = c

IndexOf(s, c) == CHOOSE i \in 1..Len(s) : s[i] = c /\ \A j \in 1..(i - 1) : s[j] # c

LastIndexOf(s, c) == CHOOSE i \in 1..Len(s) : s[i] = c /\ \A j \in (i + 1)..Len(s) : s[j] # c

\* strings.Split(s, sep) for a one-character separator: the pieces between the
\* separators, always at least one piece.
RECURSIVE Split(_, _)
Split(s, sep) ==
    IF ~Contains(s, sep) THEN <<s>>
    ELSE LET i == IndexOf(s, sep)
         IN  <<SubSeq(s, 1, i - 1)>> \o Split(SubSeq(s, i + 1, Len(s)), sep)

\* http.Header.Get: the value of the header, "" when the request has none.
HeaderGet(h) == IF h = Absent THEN EmptyStr ELSE h

\* net.JoinHostPort, which net.TCPAddr.String and URL hosts use: an address that
\* contains a colon (IPv6) is put in brackets.
JoinHostPort(host, port) ==
    IF Contains(host, ":") THEN <<"[">> \o host \o <<"]", ":">> \o port
    ELSE host \o <<":">> \o port

(***************************************************************************)
(* Upstream front end                                                      *)
(***************************************************************************)

NoReq == [none |-> TRUE]
NoResp == [none |-> TRUE]
NoForward == [none |-> TRUE]

\* Addresses a peer can connect from: IPv4 and IPv6.
PeerHosts ==
    { <<"1", ".", "2">>, <<"9">>, <<":", ":", "1">>, <<"2", ":", ":", "7">> }

PeerPorts == { <<"8", "0">> }

InfoValues == { Absent, EmptyStr, <<"1">> }

ForwardedValues == {Absent} \cup StringsUpTo({"1", "2", ","}, MaxLen)

\* A request as the server's http.Server hands it to the handler: RemoteAddr is
\* the peer's address and port joined.
ServerRequests ==
    { [info |-> i, xff |-> x, peer |-> h, RemoteAddr |-> JoinHostPort(h, p)] :
        i \in InfoValues, x \in ForwardedValues, h \in PeerHosts, p \in PeerPorts }

\* The address handleInfoRequest reports.
clientIp(req) ==
    IF HeaderGet(req.xff) = EmptyStr
    THEN Split(req.RemoteAddr, ":")[1]
    ELSE LET ips == Split(HeaderGet(req.xff), ",") IN ips[Len(ips)]

handleInfoRequest(req) ==
    /\ sresp' = [status |-> 200, publicIp |-> clientIp(req)]
    /\ sforward' = NoForward

\* serverProxy.ServeHTTP: the Director rewrites the request (serverProtocol), and
\* the transport dials the recovered destination.
serverProxyServeHTTP(req, dialOk) ==
    /\ sresp' = NoResp
    /\ sforward' = [rewritten |-> TRUE, dialed |-> TRUE, connected |-> dialOk]

IsInfoRequest(req) == HeaderGet(req.info) # EmptyStr

handleServer(req, dialOk) ==
    /\ sreq' = req
    /\ IF IsInfoRequest(req)
       THEN shandler' = "info" /\ handleInfoRequest(req)
       ELSE shandler' = "proxy" /\ serverProxyServeHTTP(req, dialOk)

ServerInit ==
    /\ sreq = NoReq
    /\ shandler = "none"
    /\ sresp = NoResp
    /\ sforward = NoForward

ServeUpstream ==
    \E req \in ServerRequests, dialOk \in BOOLEAN : handleServer(req, dialOk)

(***************************************************************************)
(* Client proxy: the Director of clientProxy                               *)
(***************************************************************************)

\* Host names the resolver is asked about, and literal addresses.
HostNames == { <<"l">>, <<"h">> }
Loopback4 == <<"1", "2", "7", ".", "0", ".", "0", ".", "1">>
Public4 == <<"8", ".", "8", ".", "8", ".", "8">>
Loopback6 == <<":", ":", "1">>
Public6 == <<"2", ":", ":", "7">>
Literals == {Loopback4, Public4, Loopback6, Public6}

\* What a name has in the resolver: nothing (the lookup fails), or one address,
\* IPv4 or IPv6, loopback or not.
Answers == {"fail", "v4loop", "v4pub", "v6loop", "v6pub"}

\* The address a name stands for: a literal is its own address, a host name is
\* looked up, and anything else is not a name the resolver accepts.
AddressOf(name) ==
    CASE name = Loopback4 -> "v4loop"
      [] name = Public4 -> "v4pub"
      [] name = Loopback6 -> "v6loop"
      [] name = Public6 -> "v6pub"
      [] name \in HostNames -> dns[name]
      [] OTHER -> "fail"

\* net.ResolveIPAddr("ip4", name): only an IPv4 address is a result; err # nil
\* otherwise.  The result is [err, loopback].
ResolveIPAddr4(name) ==
    LET a == AddressOf(name)
    IN  IF a \in {"v4loop", "v4pub"}
        THEN [err |-> FALSE, loopback |-> (a = "v4loop")]
        ELSE [err |-> TRUE, loopback |-> FALSE]

DirectorPorts == { <<"8", "0">> }

\* req.Host as clients send it: a bare host or host:port (IPv6 in brackets).
RequestHosts ==
    LET names == HostNames \cup Literals
    IN  {JoinHostPort(n, p) : n \in names, p \in DirectorPorts}
        \cup {IF Contains(n, ":") THEN <<"[">> \o n \o <<"]">> ELSE n : n \in names}

NoCarrier == <<"(none)">>

\* The host flashlight is told to connect to (-server).
upstreamHost == <<"f">>

DirectorRequests == { [Host |-> h, URLHost |-> h, carrier |-> NoCarrier] : h \in RequestHosts }

\* clientProtocol.RewriteRequest: the real destination goes into the carrier and
\* the request is addressed to the front.
RewriteRequest(req) ==
    [Host |-> upstreamHost, URLHost |-> upstreamHost, carrier |-> req.Host]

\* A Director that also rewrites when the lookup fails.
ShouldRewriteOnError(req) ==
    LET ip == ResolveIPAddr4(Split(req.Host, ":")[1])
    IN  ip.err \/ ~ip.loopback

\* The Director's test: the host, cut at the first colon, resolves as IPv4 to an
\* address that is not loopback.
ShouldRewrite(req) ==
    LET ip == ResolveIPAddr4(Split(req.Host, ":")[1])
    IN  ~ip.err /\ ~ip.loopback

Director(req) ==
    /\ dreq' = req
    /\ IF ShouldRewrite(req)
       THEN dout' = RewriteRequest(req) /\ dcalls' = 1
       ELSE dout' = req /\ dcalls' = 0

DirectorInit ==
    /\ dns \in [HostNames -> Answers]
    /\ dreq = NoReq
    /\ dout = NoReq
    /\ dcalls = 0

Direct == \E req \in DirectorRequests : Director(req) /\ UNCHANGED dns

(***************************************************************************)
(* Downstream front end: proxy.Client                                      *)
(***************************************************************************)

\* Requests one client run serves.
MaxRequests == 3

CONNECT == "CONNECT"

Methods == {CONNECT, "GET", "POST"}

ClientAddrs == { <<"h", ":", "8", "0">>, <<"h", ":", "4", "4", "3">> }

ClientRequests == [Method : Methods, addr : ClientAddrs]

\* The Dial of the reverse proxy's transport: an enproxy.Conn for addr, connected.
Dial(addr, connectOk) ==
    LET conn == [type |-> "enproxy.Conn", Addr |-> addr, Config |-> "EnproxyConfig"]
    IN  IF ~connectOk
        THEN [conn |-> Nil, err |-> "connect failed"]
        ELSE [conn |-> conn, err |-> "nil"]

\* A method test that never matches.
IsConnectNever(req) == FALSE

\* Which requests go to Intercept.
IsConnect(req) == req.Method = CONNECT

buildReverseProxy ==
    reverseProxy' = [Director |-> "do nothing", Dial |-> "enproxy", FlushIntervalMs |-> 250]

\* Client.Run builds the reverse proxy and then serves.
Run ==
    /\ reverseProxy = Nil
    /\ buildReverseProxy
    /\ UNCHANGED <<cserved, cintercepted, cproxied, cdials>>

\* Client.ServeHTTP.  The reverse proxy's Director leaves the request as it is and
\* its transport dials the request's address (keep-alives are disabled, so every
\* request dials).
ServeHTTP(req, connectOk) ==
    /\ reverseProxy # Nil
    /\ cserved < MaxRequests
    /\ cserved' = cserved + 1
    /\ IF IsConnect(req)
       THEN /\ cintercepted' = Append(cintercepted, req)
            /\ UNCHANGED <<cproxied, cdials>>
       ELSE /\ cproxied' = Append(cproxied, req)
            /\ cdials' = Append(cdials, Dial(req.addr, connectOk))
            /\ UNCHANGED cintercepted
    /\ UNCHANGED reverseProxy

ClientInit ==
    /\ reverseProxy = Nil
    /\ cserved = 0
    /\ cintercepted = << >>
    /\ cproxied = << >>
    /\ cdials = << >>

ServeDownstream ==
    \E req \in ClientRequests, connectOk \in BOOLEAN : ServeHTTP(req, connectOk)

(***************************************************************************)
(* Start-up: keys, certificates, files                                     *)
(***************************************************************************)

\* Starts of the program in one behaviour.
MaxRuns == 2

\* Values of time.Now().Nanosecond(), which lies in 0..999999999, at the calls
\* of certificateFor.
Nanoseconds == {0, 999999999}

\* ONE_MONTH_FROM_TODAY, ONE_YEAR_FROM_TODAY, TEN_YEARS_FROM_TODAY, in months
\* from the start of the process.  They are set when the process starts, and
\* start-up takes no time: within a run they are now + OneMonth, and so on.
OneMonth == 1
OneYear == 12
TenYears == 120

FLASHLIGHT_CN_PREFIX == "flashlight-"

\* Months that pass between one run and the next.
Elapsed == {0, OneYear + 1, TenYears}

\* Values of -addr.
Addrs == { <<"a", ":", "1">>, <<"b", ":", "1">>, EmptyStr }

\* Command lines: a server on each address, a client, -install alone, and no
\* -addr at all.
FlagSets ==
    { [addr |-> a, isDownstream |-> FALSE, install |-> FALSE] : a \in Addrs }
    \cup { [addr |-> <<"a", ":", "1">>, isDownstream |-> TRUE, install |-> FALSE],
           [addr |-> EmptyStr, isDownstream |-> FALSE, install |-> TRUE] }

NoFlags == [none |-> TRUE]

\* A file of the config directory: absent, present but not readable as PEM (or
\* not readable at all), or holding a key or certificate.
AbsentFile == [state |-> "absent", data |-> Nil]
UnreadableFile == [state |-> "unreadable", data |-> Nil]
FileOf(x) == [state |-> "ok", data |-> x]

\* keyman.LoadPKFromFile, keyman.LoadCertificateFromFile: [val, err].
LoadFromFile(file) ==
    CASE file.state = "ok" -> [val |-> file.data, err |-> "nil"]
      [] file.state = "absent" -> [val |-> Nil, err |-> "not exist"]
      [] OTHER -> [val |-> Nil, err |-> "unreadable"]

IsNotExist(err) == err = "not exist"

\* The uuid drawn for the n-th root: n marks.
Uuid(n) == [i \in 1..n |-> "u"]

NoInitLog == [ran |-> FALSE]
NoServerLog == [ran |-> FALSE]

\* x509's NotAfter.Before(t).
Before(notAfter, t) == notAfter < t

\* certificateFor: a certificate for name, signed with the private key in use
\* (key), and by it alone: the subject's key is that key too.  serial is
\* time.Now().Nanosecond() at the call.
certificateFor(name, validUntil, isCA, issuer, key, serial) ==
    [ cn |-> name,
      issuerCn |-> IF issuer = Nil THEN name ELSE issuer.cn,
      notAfter |-> validUntil,
      serial |-> serial,
      IsCA |-> (issuer = Nil),
      certSign |-> (issuer = Nil /\ isCA),
      key |-> key ]

\* What the environment does to one call of initCommonCerts: the step that fails,
\* if any (the call returns at the first failure, and the trust-store step is the
\* last, so one call meets at most one), and the nanosecond the clock shows.
CommonFaults ==
    {"none", "generate pk", "write pk", "sign ca", "write ca", "is installed",
     "add as trusted root"}

CommonEnvs == [fault : CommonFaults, nano : Nanoseconds]

\* initCommonCerts, the private key: loaded, or generated and written when the
\* file does not exist.  The result: the key in use, the file, whether a key was
\* generated and written, and the error.
LoadOrCreatePK(env) ==
    LET l == LoadFromFile(pkFile)
        newKey == [id |-> keysMade + 1]
        Res(key, file, gen, wrote, err) ==
            [pk |-> key, file |-> file, gen |-> gen, wrote |-> wrote, err |-> err]
    IN  IF l.err = "nil" THEN Res(l.val, pkFile, FALSE, FALSE, "nil")
        ELSE IF IsNotExist(l.err)
        THEN IF env.fault = "generate pk" THEN Res(Nil, pkFile, FALSE, FALSE, "generate pk")
             ELSE IF env.fault = "write pk" THEN Res(newKey, pkFile, TRUE, FALSE, "write pk")
             ELSE Res(newKey, FileOf(newKey), TRUE, TRUE, "nil")
        ELSE Res(Nil, pkFile, FALSE, FALSE, "unable to read pk")

\* The test of line 361: the root did not load, or it expires within the month.
RootUnusable(l) == l.err # "nil" \/ Before(l.val.notAfter, now + OneMonth)

\* The test as initServerCert has it (line 387), which also lets a loaded
\* certificate through.
RootMissingOrLoaded(l) == l.err = "nil" \/ IsNotExist(l.err)

\* The test of line 362: a new root is made only when the file does not exist.
RootMissing(l) == IsNotExist(l.err)

\* initCommonCerts, the root certificate, given the private key in use.  The
\* common name is drawn (uuid.New) before certificateFor is called.
LoadOrCreateCA(key, env) ==
    LET l == LoadFromFile(caFile)
        name == <<FLASHLIGHT_CN_PREFIX>> \o Uuid(rootsMade + 1)
        cert == certificateFor(name, now + TenYears, TRUE, Nil, key, env.nano)
        Res(c, file, gen, wrote, uuid, err) ==
            [caCert |-> c, file |-> file, gen |-> gen, wrote |-> wrote, uuid |-> uuid,
             err |-> err]
    IN  IF ~RootUnusable(l) THEN Res(l.val, caFile, FALSE, FALSE, FALSE, "nil")
        ELSE IF RootMissing(l)
        THEN IF env.fault = "sign ca" THEN Res(Nil, caFile, FALSE, FALSE, TRUE, "sign ca")
             ELSE IF env.fault = "write ca" THEN Res(cert, caFile, TRUE, FALSE, TRUE, "write ca")
             ELSE Res(cert, FileOf(cert), TRUE, TRUE, TRUE, "nil")
        ELSE Res(l.val, caFile, FALSE, FALSE, FALSE, "unable to read ca")

\* installCACertToTrustStoreIfNecessary: [err, store].
installCACertToTrustStoreIfNecessary(cert, env) ==
    LET needInstalledCert == flags.isDownstream \/ flags.install
        haveInstalledCert == needInstalledCert /\ cert.cn \in trustStore
    IN  IF needInstalledCert /\ env.fault = "is installed"
        THEN [err |-> "is installed", store |-> trustStore]
        ELSE IF needInstalledCert /\ ~haveInstalledCert
        THEN IF env.fault = "add as trusted root"
             THEN [err |-> "add as trusted root", store |-> trustStore]
             ELSE [err |-> "nil", store |-> trustStore \cup {cert.cn}]
        ELSE [err |-> "nil", store |-> trustStore]

\* An initCommonCerts that returns the error of the trust-store step.
ReturnInstallError(installErr) == installErr

\* What initCommonCerts returns once the key and the root are there, given the
\* error of the trust-store step: the error is logged, never returned.
AfterInstall(installErr) == "nil"

\* initCommonCerts.
initCommonCerts(env) ==
    \E p \in {LoadOrCreatePK(env)} :
    \E c \in {IF p.err = "nil" THEN LoadOrCreateCA(p.pk, env) ELSE Nil} :
    \E t \in {IF p.err = "nil" /\ c.err = "nil"
              THEN installCACertToTrustStoreIfNecessary(c.caCert, env) ELSE Nil} :
    LET pkOk == p.err = "nil"
        caOk == pkOk /\ c.err = "nil"
        err == IF ~pkOk THEN p.err ELSE IF ~caOk THEN c.err ELSE AfterInstall(t.err)
    IN  /\ pk' = p.pk
        /\ pkFile' = p.file
        /\ keysMade' = IF p.gen THEN keysMade + 1 ELSE keysMade
        /\ caCert' = IF pkOk THEN c.caCert ELSE caCert
        /\ caFile' = IF pkOk THEN c.file ELSE caFile
        /\ rootsMade' = IF pkOk /\ c.uuid THEN rootsMade + 1 ELSE rootsMade
        /\ issued' = IF pkOk /\ c.gen
                     THEN issued \cup {[key |-> p.pk, serial |-> c.caCert.serial]}
                     ELSE issued
        /\ trustStore' = IF caOk THEN t.store ELSE trustStore
        /\ initLog' = [ ran |-> TRUE, pkWas |-> pkFile, caWas |-> caFile,
                        genKey |-> p.gen, wrotePk |-> p.wrote,
                        genRoot |-> pkOk /\ c.gen, wroteCa |-> pkOk /\ c.wrote,
                        serialWasUsed |-> /\ pkOk /\ c.gen
                                          /\ [key |-> p.pk, serial |-> c.caCert.serial]
                                                \in issued,
                        trustErr |-> IF caOk THEN t.err ELSE "nil", err |-> err ]
        /\ pc' = IF err = "nil" THEN "commonOk" ELSE "fatalCommon"

\* What the environment does to one call of initServerCert.
ServerFaults == {"none", "sign server cert", "write server cert"}

ServerEnvs == [fault : ServerFaults, nano : Nanoseconds]

\* The test of line 386: the server certificate did not load, or the ROOT in use
\* expires within the month.
ServerCertUnusable(l) == l.err # "nil" \/ Before(caCert.notAfter, now + OneMonth)

\* initServerCert(host).
initServerCert(host, env) ==
    LET l == LoadFromFile(serverFile)
        cert == certificateFor(host, now + OneYear, TRUE, caCert, pk, env.nano)
        Done(c, file, gen, wrote, err) ==
            /\ serverCert' = c
            /\ serverFile' = file
            /\ issued' = IF gen THEN issued \cup {[key |-> pk, serial |-> cert.serial]}
                         ELSE issued
            /\ serverLog' = [ ran |-> TRUE, host |-> host, fileWas |-> serverFile,
                              gen |-> gen, wrote |-> wrote,
                              serialWasUsed |-> /\ gen
                                                /\ [key |-> pk, serial |-> cert.serial]
                                                      \in issued,
                              err |-> err ]
            /\ pc' = IF err = "nil" THEN "serverCertOk" ELSE "fatalServerCert"
    IN  IF ~ServerCertUnusable(l) THEN Done(l.val, serverFile, FALSE, FALSE, "nil")
        ELSE IF l.err = "nil" \/ IsNotExist(l.err)
        THEN IF env.fault = "sign server cert" THEN Done(Nil, serverFile, FALSE, FALSE, "sign server cert")
             ELSE IF env.fault = "write server cert"
             THEN Done(cert, serverFile, TRUE, FALSE, "write server cert")
             ELSE Done(cert, FileOf(cert), TRUE, TRUE, "nil")
        ELSE Done(l.val, serverFile, FALSE, FALSE, "unable to read server cert")

\* The host main passes to initServerCert: -addr cut at the first colon.
ServerHost == Split(flags.addr, ":")[1]

(***************************************************************************)
(* main, one step per call it makes                                        *)
(***************************************************************************)

\* The process starts: the flags are parsed (parseFlags exits with the usage text
\* when -addr is empty and -install is not given) and the clock is read.  The
\* clock starts at the first run; months pass between one run and the next.
Start(f, months) ==
    /\ pc = "stopped"
    /\ runs < MaxRuns
    /\ runs' = runs + 1
    /\ now' = now + months
    /\ runs = 0 => months = 0
    /\ flags' = f
    /\ pc' = IF f.addr = EmptyStr /\ ~f.install THEN "usage" ELSE "started"
    /\ UNCHANGED <<pkFile, caFile, serverFile, pk, caCert, serverCert, trustStore,
                   keysMade, rootsMade, issued, initLog, serverLog>>

InitCommonCerts(env) ==
    /\ pc = "started"
    /\ initCommonCerts(env)
    /\ UNCHANGED <<now, runs, flags, serverFile, serverCert, serverLog>>

\* -install: "Only ran to init, exiting now".
InstallExit ==
    /\ pc = "commonOk"
    /\ flags.install
    /\ pc' = "exited"
    /\ UNCHANGED <<now, runs, flags, pkFile, caFile, serverFile, pk, caCert, serverCert,
                   trustStore, keysMade, rootsMade, issued, initLog, serverLog>>

runClient ==
    /\ pc = "commonOk"
    /\ ~flags.install
    /\ flags.isDownstream
    /\ pc' = "clientRunning"
    /\ UNCHANGED <<now, runs, flags, pkFile, caFile, serverFile, pk, caCert, serverCert,
                   trustStore, keysMade, rootsMade, issued, initLog, serverLog>>

InitServerCert(env) ==
    /\ pc = "commonOk"
    /\ ~flags.install
    /\ ~flags.isDownstream
    /\ initServerCert(ServerHost, env)
    /\ UNCHANGED <<now, runs, flags, pkFile, caFile, pk, caCert, trustStore, keysMade,
                   rootsMade, initLog>>

\* runServer: ListenAndServeTLS reads SERVER_CERT_FILE and PK_FILE again and
\* fails when the certificate's key is not the private key.
runServer(listenOk) ==
    /\ pc = "serverCertOk"
    /\ pc' = IF /\ listenOk
                /\ serverFile.state = "ok"
                /\ pkFile.state = "ok"
                /\ serverFile.data.key = pkFile.data
             THEN "serverRunning" ELSE "fatalListen"
    /\ UNCHANGED <<now, runs, flags, pkFile, caFile, serverFile, pk, caCert, serverCert,
                   trustStore, keysMade, rootsMade, issued, initLog, serverLog>>

\* The process ends (os.Exit, log.Fatalf, a signal): its memory is gone, the
\* config directory and the trust store stay.
Stop ==
    /\ pc # "stopped"
    /\ pc' = "stopped"
    /\ pk' = Nil
    /\ caCert' = Nil
    /\ serverCert' = Nil
    /\ flags' = NoFlags
    /\ initLog' = NoInitLog
    /\ serverLog' = NoServerLog
    /\ UNCHANGED <<now, runs, pkFile, caFile, serverFile, trustStore, keysMade, rootsMade,
                   issued>>

\* Between runs a file of the config directory is deleted, or damaged (while
\* another run can still follow).
ConfigFiles == {"pk", "ca", "server"}

SetFile(which, file) ==
    /\ pc = "stopped"
    /\ runs < MaxRuns
    /\ pkFile' = IF which = "pk" THEN file ELSE pkFile
    /\ caFile' = IF which = "ca" THEN file ELSE caFile
    /\ serverFile' = IF which = "server" THEN file ELSE serverFile
    /\ <<pkFile', caFile', serverFile'>> # <<pkFile, caFile, serverFile>>
    /\ UNCHANGED <<now, runs, pc, flags, pk, caCert, serverCert, trustStore, keysMade,
                   rootsMade, issued, initLog, serverLog>>

DeleteFile == \E which \in ConfigFiles : SetFile(which, AbsentFile)

DamageFile == \E which \in ConfigFiles : SetFile(which, UnreadableFile)

MainInit ==
    /\ now = 0
    /\ runs = 0
    /\ pc = "stopped"
    /\ flags = NoFlags
    /\ pkFile = AbsentFile
    /\ caFile = AbsentFile
    /\ serverFile = AbsentFile
    /\ pk = Nil
    /\ caCert = Nil
    /\ serverCert = Nil
    /\ trustStore = {}
    /\ keysMade = 0
    /\ rootsMade = 0
    /\ issued = {}
    /\ initLog = NoInitLog
    /\ serverLog = NoServerLog

(***************************************************************************)
(* Specifications                                                          *)
(***************************************************************************)

vars == <<svars, dvars, cvars, mvars>>

\* The parts of the state that belong to the request handlers.
handlerVars == <<svars, dvars, cvars>>

StartProcess ==
    /\ \E f \in FlagSets, months \in Elapsed : Start(f, months)
    /\ UNCHANGED handlerVars

CommonCerts ==
    /\ \E env \in CommonEnvs : InitCommonCerts(env)
    /\ UNCHANGED handlerVars

InstallOnly == InstallExit /\ UNCHANGED handlerVars

ClientStarts == runClient /\ UNCHANGED handlerVars

ServerCert ==
    /\ \E env \in ServerEnvs : InitServerCert(env)
    /\ UNCHANGED handlerVars

ServerStarts ==
    /\ \E listenOk \in BOOLEAN : runServer(listenOk)
    /\ UNCHANGED handlerVars

ProcessEnds == Stop /\ UNCHANGED handlerVars

FileDeleted == DeleteFile /\ UNCHANGED handlerVars

FileDamaged == DamageFile /\ UNCHANGED handlerVars

NoLookups == dns = [n \in HostNames |-> "fail"]

\* The start-up and certificate lifecycle, over restarts.
Init == MainInit /\ ServerInit /\ DirectorInit /\ NoLookups /\ ClientInit

Next ==
    \/ StartProcess
    \/ CommonCerts
    \/ InstallOnly
    \/ ClientStarts
    \/ ServerCert
    \/ ServerStarts
    \/ ProcessEnds
    \/ FileDeleted
    \/ FileDamaged

Spec == Init /\ [][Next]_vars

\* The upstream front end.
UpstreamRequest == ServeUpstream /\ UNCHANGED <<dvars, cvars, mvars>>

SpecServer == Init /\ [][UpstreamRequest]_vars

\* The client proxy's Director, under every resolver.
DirectorCall == Direct /\ UNCHANGED <<svars, cvars, mvars>>

AnyResolver == MainInit /\ ServerInit /\ DirectorInit /\ ClientInit

SpecDirector == AnyResolver /\ [][DirectorCall]_vars

\* The downstream front end.
ClientRuns == Run /\ UNCHANGED <<svars, dvars, mvars>>

DownstreamRequest == ServeDownstream /\ UNCHANGED <<svars, dvars, mvars>>

ClientNext == ClientRuns \/ DownstreamRequest

SpecClient == Init /\ [][ClientNext]_vars

(***************************************************************************)
(* Claims                                                                  *)
(***************************************************************************)

\* The vocabulary of the claims.  The host of a "host", "host:port", "[v6]" or
\* "[v6]:port" string: the part before the port.
HostPart(hp) ==
    IF hp # EmptyStr /\ hp[1] = "[" /\ Contains(hp, "]")
    THEN SubSeq(hp, 2, IndexOf(hp, "]") - 1)
    ELSE IF Contains(hp, ":") THEN SubSeq(hp, 1, LastIndexOf(hp, ":") - 1)
    ELSE hp

\* The text after the last comma of a comma-separated list.
LastEntry(list) ==
    IF Contains(list, ",") THEN SubSeq(list, LastIndexOf(list, ",") + 1, Len(list))
    ELSE list

\* Whether the destination of a request is a loopback address, in any family.
ResolvesToLoopback(hostport) == AddressOf(HostPart(hostport)) \in {"v4loop", "v6loop"}

\* The caller's apparent address: the last entry of X-Forwarded-For when the
\* request has one, the host of RemoteAddr otherwise.
ApparentAddress(req) ==
    IF req.xff # Absent /\ req.xff # EmptyStr THEN LastEntry(req.xff)
    ELSE HostPart(req.RemoteAddr)

\* C1: on the upstream front end a request with a non-empty X-Lantern-Request-Info
\* header is answered by handleInfoRequest and never reaches serverProxy; the
\* response has status 200 and X-LANTERN-PUBLIC-IP is the caller's apparent
\* address.  Every other request goes to serverProxy and never to
\* handleInfoRequest.
C1_InfoRequestAnswered ==
    shandler # "none" =>
        IF sreq.info # Absent /\ sreq.info # EmptyStr
        THEN /\ shandler = "info"
             /\ sforward = NoForward
             /\ sresp # NoResp
             /\ sresp.status = 200
             /\ sresp.publicIp = ApparentAddress(sreq)
        ELSE /\ shandler = "proxy"
             /\ sresp = NoResp
             /\ sforward # NoForward

\* The root that initCommonCerts found in cacert.pem expires within the month.
PersistedRootExpiring ==
    /\ initLog.ran
    /\ initLog.caWas.state = "ok"
    /\ Before(initLog.caWas.data.notAfter, now + OneMonth)

\* C2: when the persisted root loads but expires within the month, start-up
\* regenerates it: initCommonCerts returns nil, and the root in use and on disk is
\* a newly issued certificate with a later NotAfter.  (Stated for a start-up whose
\* key file loads: nothing the environment could fail at is then reached.)
C2_ExpiringRootRegenerated ==
    (PersistedRootExpiring /\ initLog.pkWas.state = "ok") =>
        /\ initLog.err = "nil"
        /\ initLog.genRoot
        /\ caCert # initLog.caWas.data
        /\ caCert.notAfter > initLog.caWas.data.notAfter
        /\ caFile = FileOf(caCert)

\* C3: a request whose host resolves to a loopback address is not given to
\* clientProtocol.RewriteRequest, and the Director leaves its Host and URL as
\* they were.
C3_LoopbackNotRewritten ==
    (dreq # NoReq /\ ResolvesToLoopback(dreq.Host)) =>
        /\ dcalls = 0
        /\ dout.Host = dreq.Host
        /\ dout.URLHost = dreq.URLHost

\* C3's case: the Director handled a request for a host name that the resolver
\* maps to an IPv4 loopback address, and left it alone.
C3_Witness ==
    /\ dreq # NoReq
    /\ dreq.Host = <<"l", ":", "8", "0">>
    /\ dns[<<"l">>] = "v4loop"
    /\ dcalls = 0
    /\ dout = dreq

\* C4: every request whose host does not resolve to a loopback address is passed
\* through clientProtocol.RewriteRequest: it leaves the Director addressed to the
\* front, with the real destination in the carrier.
C4_NonLoopbackRewritten ==
    (dreq # NoReq /\ ~ResolvesToLoopback(dreq.Host)) =>
        /\ dcalls = 1
        /\ dout = RewriteRequest(dreq)
        /\ dout.Host = upstreamHost

\* C5: initServerCert reuses the persisted server certificate only if that
\* certificate is itself unexpired; when the persisted one has expired, a new one
\* is issued and persisted.
C5_ExpiredLeafReissued ==
    (serverLog.ran /\ serverLog.err = "nil") =>
        /\ ~serverLog.gen => ~Before(serverCert.notAfter, now)
        /\ (serverLog.fileWas.state = "ok" /\ Before(serverLog.fileWas.data.notAfter, now)) =>
              /\ serverLog.gen
              /\ serverCert # serverLog.fileWas.data
              /\ serverFile = FileOf(serverCert)

\* C6: whenever initServerCert returns nil, the server certificate in use has the
\* host passed to that call as its common name.
C6_CommonNameIsHost ==
    (serverLog.ran /\ serverLog.err = "nil") => serverCert.cn = serverLog.host

\* Both files were there and readable when initCommonCerts ran, and the root was
\* not within the expiry margin.
PersistedIdentityUsable ==
    /\ initLog.ran
    /\ initLog.pkWas.state = "ok"
    /\ initLog.caWas.state = "ok"
    /\ ~Before(initLog.caWas.data.notAfter, now + OneMonth)

\* C7: with the key file and a root file outside the expiry margin both present
\* and readable, initCommonCerts generates nothing, writes nothing, and uses the
\* persisted key and root; a key or a root is generated and written only when its
\* file is absent.
C7_InitCommonCertsIdempotent ==
    initLog.ran =>
        /\ PersistedIdentityUsable =>
              /\ ~initLog.genKey /\ ~initLog.wrotePk
              /\ ~initLog.genRoot /\ ~initLog.wroteCa
              /\ pk = initLog.pkWas.data
              /\ caCert = initLog.caWas.data
              /\ pkFile = initLog.pkWas
              /\ caFile = initLog.caWas
        /\ (initLog.genKey \/ pkFile # initLog.pkWas) => initLog.pkWas = AbsentFile
        /\ (initLog.genRoot \/ caFile # initLog.caWas) => initLog.caWas = AbsentFile

\* C7's case: a restart found the key and root of the run before, months later,
\* and went on with them.
C7_Witness ==
    /\ PersistedIdentityUsable
    /\ runs = 2
    /\ now > 0
    /\ initLog.err = "nil"
    /\ pk = pkFile.data
    /\ caCert = caFile.data

C9_SerialsUnique ==
    /\ initLog.ran => ~initLog.serialWasUsed
    /\ serverLog.ran => ~serverLog.serialWasUsed

\* What the transport's Dial may return for a request to addr: the connected
\* enproxy.Conn for that address and no error, or nil and the error.
DialResultFor(d, addr) ==
    \/ d.err # "nil" /\ d.conn = Nil
    \/ /\ d.err = "nil"
       /\ d.conn # Nil
       /\ d.conn.type = "enproxy.Conn"
       /\ d.conn.Addr = addr

\* C10: Client.ServeHTTP hands every request to exactly one path: CONNECT
\* requests to Intercept and never to the reverse proxy, all others to the
\* reverse proxy, whose transport dials an enproxy.Conn and returns nil with the
\* error when Connect fails.
C10_OnePathPerRequest ==
    /\ Len(cintercepted) + Len(cproxied) = cserved
    /\ \A i \in 1..Len(cintercepted) : cintercepted[i].Method = CONNECT
    /\ \A i \in 1..Len(cproxied) : cproxied[i].Method # CONNECT
    /\ Len(cdials) = Len(cproxied)
    /\ \A i \in 1..Len(cdials) : DialResultFor(cdials[i], cproxied[i].addr)

\* C10's case: a CONNECT was intercepted, and of two proxied requests one dial
\* connected and one failed.
C10_Witness ==
    /\ Len(cintercepted) = 1
    /\ Len(cproxied) = 2
    /\ cdials[1].err # "nil"
    /\ cdials[2].err = "nil"

\* C11: whenever initCommonCerts has returned nil, the root certificate in use was
\* self-signed with the private key in use: the key and the root belong to one
\* signing identity.
C11_RootSignedByKeyInUse ==
    (initLog.ran /\ initLog.err = "nil") =>
        /\ caCert # Nil
        /\ pk # Nil
        /\ caCert.issuerCn = caCert.cn
        /\ caCert.key = pk

====
